---- MODULE Spec2Model ----
(***************************************************************************)
(* The incremental update pipeline of the MoEngage documentation server:   *)
(* UpdateScheduler (src/src/index.ts), SitemapUpdater                      *)
(* (src/src/sitemap-updater.ts), Database and DocumentProcessor            *)
(* (src/unnamed/part_006).                                                 *)
(*                                                                         *)
(* Node.js runs one callback at a time, so every action below is one       *)
(* callback: the code from one await to the next.  A Store call or a       *)
(* network call either succeeds or fails, chosen by the environment.       *)
(* Date.now() is a reading of the wall clock, never before the last one.   *)
(***************************************************************************)
EXTENDS Integers, Sequences, FiniteSets, TLC

\* ------------------------------------------------------------------ bounds
MaxTime == 2
MaxRuns == 2
MaxConcurrent == 2
MaxCalls == 3
MaxRequests == 2
MaxWindow == 2
MaxItems == 3

\* an absent timestamp (entry.lastmod undefined, lastUpdateTime undefined)
NoTime == 0 - 1

Min(a, b) == IF a <= b THEN a ELSE b

\* ------------------------------------------------------------------- URLs
\* A URL is its text; UrlHost and UrlPath give what `new URL(url)` yields.
\* A path segment is written [num, rest, ext]: its leading digits, the rest
\* of its base name, and its extension, so "101-intro" is ["101","-intro",""].
Seg(num, rest, ext) == [num |-> num, rest |-> rest, ext |-> ext]

UrlArticle == "https://developers.moengage.com/hc/en-us/articles/101-intro"
UrlDevHome == "https://developers.moengage.com/hc/en-us"
UrlHelpHome == "https://help.moengage.com/hc/en-us"
UrlCategory == "https://developers.moengage.com/hc/en-us/categories/200-sdk"

Urls == {UrlArticle, UrlDevHome, UrlHelpHome, UrlCategory}

UrlHost(url) ==
  CASE url = UrlArticle -> "developers.moengage.com"
    [] url = UrlDevHome -> "developers.moengage.com"
    [] url = UrlHelpHome -> "help.moengage.com"
    [] url = UrlCategory -> "developers.moengage.com"

UrlPath(url) ==
  CASE url = UrlArticle ->
         <<Seg("", "hc", ""), Seg("", "en-us", ""), Seg("", "articles", ""),
           Seg("101", "-intro", "")>>
    [] url = UrlDevHome -> <<Seg("", "hc", ""), Seg("", "en-us", "")>>
    [] url = UrlHelpHome -> <<Seg("", "hc", ""), Seg("", "en-us", "")>>
    [] url = UrlCategory ->
         <<Seg("", "hc", ""), Seg("", "en-us", ""), Seg("", "categories", ""),
           Seg("200", "-sdk", "")>>

SegText(s) == s.num \o s.rest \o (IF s.ext = "" THEN "" ELSE "." \o s.ext)

\* crypto.createHash('md5').update(x).digest('hex')
Md5(x) == "md5(" \o x \o ")"

\* lastSegment.replace(/\.[^/.]+$/, ''), or the hash fallback
LastSegmentId(url) ==
  LET p == UrlPath(url)
  IN IF Len(p) > 0 /\ SegText(p[Len(p)]) # "index.html"
       THEN p[Len(p)].num \o p[Len(p)].rest
       ELSE Md5(url)

\* SitemapUpdater.generateDocumentId: url.match(/articles\/(\d+)/) first
UpdaterDocumentId(url) ==
  LET p == UrlPath(url)
      hits == {i \in 1..(Len(p) - 1) :
                 /\ p[i].rest = "articles" /\ p[i].ext = ""
                 /\ p[i + 1].num # ""}
  IN IF hits # {}
       THEN "article-" \o p[(CHOOSE i \in hits : \A j \in hits : i <= j) + 1].num
       ELSE LastSegmentId(url)

\* DocumentProcessor.generateDocumentId: the last segment only
ProcessorDocumentId(url) == LastSegmentId(url)

\* DocumentProcessor.generateChecksum
GenerateChecksum(content) == Md5(content)

\* ----------------------------------------------------------- configuration
\* config.sitemapUrls, named by the source that extractSourceFromUrl derives
SitemapUrls == <<"developers", "help">>

\* a sitemap entry as fetchSitemap returns it
Entry(loc, lastmod) == [loc |-> loc, lastmod |-> lastmod]

\* The sources: what each sitemap lists and what body each page serves.  A
\* body is "short" when it is below the 100-character minimum.
World(developers, help, article, devHome, helpHome) ==
  [sitemaps |-> [s \in {"developers", "help"} |->
                   IF s = "developers" THEN developers ELSE help],
   pages |-> [u \in Urls |->
                IF u = UrlArticle THEN article
                ELSE IF u = UrlDevHome THEN devHome
                ELSE IF u = UrlHelpHome THEN helpHome ELSE "c1"]]

\* the sources considered: an article without lastmod beside a dated page;
\* two pages whose URLs end in the same segment; a category page and an
\* article beside a page with too little text
Worlds ==
  { World(<<Entry(UrlArticle, NoTime)>>, <<Entry(UrlHelpHome, 1)>>,
          "c1", "c1", "c1"),
    World(<<Entry(UrlDevHome, 1)>>, <<Entry(UrlHelpHome, NoTime)>>,
          "c1", "c1", "c2"),
    World(<<Entry(UrlCategory, NoTime), Entry(UrlArticle, NoTime)>>,
          <<Entry(UrlHelpHome, NoTime)>>, "c1", "c1", "short") }

\* the request limit of cleanupDeletedDocuments' getRecentUpdates call
SweepLimit == 10000

\* --------------------------------------------------------------- messages
StoreError == "SQLITE_ERROR"

\* the message of the error axios.get rejects with
FetchError == "timeout of 30000ms exceeded"

SitemapFailure(sitemapUrl) ==
  "Failed to fetch sitemap " \o sitemapUrl \o ": timeout"
DocumentFailure(url) == "Failed to process document: " \o url
EntryFailure(url, msg) == "Failed to process " \o url \o ": " \o msg
UpdateFailure(msg) == "Update failed: " \o msg

\* -------------------------------------------------------------------- state
VARIABLES
  now,                  \* Date.now()
  isRunning,            \* UpdateScheduler.isRunning
  lastTrigger,          \* the last trigger and what it was answered
  nStarted,             \* number of runs started so far
  runs,                 \* the runs: locals of SitemapUpdater.performUpdate
  docs,                 \* table documents
  ledger,               \* table update_status, in insertion order
  maxConcurrentUpdates, \* config.maxConcurrentUpdates
  sitemaps,             \* the entries each sitemap lists
  pages,                \* the body each URL serves
  rateLimitRequests,    \* config.rateLimitRequests
  rateLimitWindow,      \* config.rateLimitWindow
  rateLimiter,          \* DocumentProcessor.rateLimiter.get('global')
  calls,                \* the calls of processDocument and fetchSitemap
  fetches,              \* the requests sent so far, in order
  scheduledTask,        \* UpdateScheduler.scheduledTask is set
  waitCount,            \* waitCount of UpdateScheduler.shutdown
  shutdownPc,           \* where shutdown is: "none", "wait" or "closed"
  forceUpdateOnStart,   \* config.forceUpdateOnStart
  initPc                \* where initializeScheduler is: "initialize",
                        \* "update", "done" or "failed"

\* the state of the rate limiter and of the calls that go through it
LimiterVars == <<rateLimitRequests, rateLimitWindow, rateLimiter, calls,
                 fetches>>

\* no synchronous loop holds the event loop
EventLoopFree == \A r \in DOMAIN runs : runs[r].pc # "createBatches"

\* process.exit has not been called (it is, right after shutdown and after
\* a failed start) and the event loop can run a callback
ProcessAlive ==
  shutdownPc # "closed" /\ initPc # "failed" /\ EventLoopFree

\* initializeScheduler has returned: requests and cron ticks are served
Serving == initPc = "done"

\* the scheduled task and the progress of initialization and of shutdown
ShutdownVars == <<scheduledTask, waitCount, shutdownPc, forceUpdateOnStart,
                  initPc>>

vars == <<now, isRunning, lastTrigger, nStarted, runs, docs, ledger,
          maxConcurrentUpdates, sitemaps, pages, LimiterVars, ShutdownVars>>

RunIds == 1..MaxRuns

NoDoc == [id |-> "", url |-> "", checksum |-> ""]

\* status as performUpdate initialises it
Status0 ==
  [totalDocuments |-> 0, newDocuments |-> 0, updatedDocuments |-> 0,
   deletedDocuments |-> 0, errors |-> <<>>]

IdleRun ==
  [pc |-> "idle", force |-> FALSE, smIdx |-> 0, all |-> <<>>,
   entries |-> <<>>, lastUpdateTime |-> NoTime, batches |-> <<>>, bi |-> 0,
   est |-> <<>>, status |-> Status0, toDel |-> {}, deletedCount |-> 0,
   removed |-> 0]

EndedRun == [IdleRun EXCEPT !.pc = "ended"]

Active(r) == runs[r].pc \notin {"idle", "ended"}

\* --------------------------------------------------------------- the Store
\* INSERT OR REPLACE: id is the primary key, url is UNIQUE, so the rows that
\* hold the new row's id or url are removed before the insert
UpsertDocument(table, document) ==
  {x \in table : x.id # document.id /\ x.url # document.url} \cup {document}

\* SELECT * FROM documents WHERE id = ?
GetDocument(table, id) ==
  IF \E x \in table : x.id = id
    THEN CHOOSE x \in table : x.id = id
    ELSE NoDoc

\* DELETE FROM documents WHERE id = ?
DeleteDocument(table, id) == {x \in table : x.id # id}

\* SELECT COUNT(*) FROM documents
GetTotalDocumentCount(table) == Cardinality(table)

\* SELECT * FROM documents ORDER BY updatedAt DESC LIMIT ?: the possible
\* results, the rows being the whole table when it holds at most limit rows
GetRecentUpdates(table, limit) ==
  {s \in SUBSET table : Cardinality(s) = Min(limit, Cardinality(table))}

\* SELECT * FROM update_status ORDER BY lastUpdate DESC LIMIT 1, its lastUpdate
GetLastUpdateTime(rows) ==
  IF rows = <<>> THEN NoTime
  ELSE CHOOSE t \in {rows[i].lastUpdate : i \in 1..Len(rows)} :
         \A i \in 1..Len(rows) : rows[i].lastUpdate <= t

\* variant: one status row that every save replaces
SaveUpdateStatusReplacing(rows, status, t, tag) ==
  <<[lastUpdate |-> t,
     totalDocuments |-> status.totalDocuments,
     newDocuments |-> status.newDocuments,
     updatedDocuments |-> status.updatedDocuments,
     deletedDocuments |-> status.deletedDocuments,
     errors |-> status.errors,
     tag |-> tag]>>

\* INSERT INTO update_status, lastUpdate being new Date() of the insert; tag
\* records which run wrote the row and over which entries and sources
SaveUpdateStatus(rows, status, t, tag) ==
  Append(rows,
    [lastUpdate |-> t,
     totalDocuments |-> status.totalDocuments,
     newDocuments |-> status.newDocuments,
     updatedDocuments |-> status.updatedDocuments,
     deletedDocuments |-> status.deletedDocuments,
     errors |-> status.errors,
     tag |-> tag])

\* ---------------------------------------------------------- SitemapUpdater
ValidDomains ==
  {"developers.moengage.com", "help.moengage.com", "partners.moengage.com"}

\* excludePatterns, by url.includes: '/categories/' and '/sections/' need a
\* following slash; the other patterns are found at the start of a segment
\* (no segment of Urls begins with one of them without being equal to it)
ExcludedUrl(url) ==
  LET p == UrlPath(url)
  IN \E i \in 1..Len(p) :
       \/ /\ SegText(p[i]) \in {"categories", "sections"}
          /\ i < Len(p)
       \/ /\ p[i].num = ""
          /\ p[i].rest \in {"search", "requests", "subscriptions", "signin",
                            "signup", "community"}

\* the predicate of filterDocumentationEntries
IsDocumentationUrl(url) ==
  /\ UrlHost(url) \in ValidDomains
  /\ Len(UrlPath(url)) >= 2
  /\ SegText(UrlPath(url)[1]) = "hc"
  /\ ~ExcludedUrl(url)

\* variant: every entry of the sitemaps is kept
FilterNothing(entries) == entries

FilterDocumentationEntries(entries) ==
  SelectSeq(entries, LAMBDA e : IsDocumentationUrl(e.loc))

RECURSIVE CreateBatchesFrom(_, _, _)
CreateBatchesFrom(items, batchSize, i) ==
  IF i >= Len(items) THEN <<>>
  ELSE <<SubSeq(items, i + 1, Min(i + batchSize, Len(items)))>>
         \o CreateBatchesFrom(items, batchSize, i + batchSize)

\* for (let i = 0; i < items.length; i += batchSize): with items to place and
\* a batchSize below 1, i never reaches items.length
CreateBatchesLoops(items, batchSize) == Len(items) > 0 /\ batchSize < 1

\* variant: all items in one batch, whatever batchSize
CreateOneBatch(items, batchSize) == IF items = <<>> THEN <<>> ELSE <<items>>

\* variant: only the batches of batchSize items
CreateFullBatches(items, batchSize) ==
  CreateBatchesFrom(SubSeq(items, 1, Len(items) - (Len(items) % batchSize)),
                    batchSize, 0)

\* createBatches, applied to the positions of docEntries
CreateBatches(items, batchSize) == CreateBatchesFrom(items, batchSize, 0)

SeqSet(q) == {q[i] : i \in 1..Len(q)}

\* an entry before processEntry is called for it
EntryWaiting ==
  [st |-> "wait", existing |-> NoDoc, doc |-> NoDoc, action |-> "",
   hasDoc |-> FALSE, error |-> "", ruleSkipped |-> FALSE, fetched |-> FALSE,
   wrote |-> FALSE, prior |-> NoDoc]

\* variant: the skip rule with < in place of <=
SkipByLastModifiedStrict(entry, lastUpdateTime, t) ==
  LET lastModified == IF entry.lastmod # NoTime THEN entry.lastmod ELSE t
  IN lastUpdateTime # NoTime /\ lastModified < lastUpdateTime

\* the skip rule of processEntry: lastUpdateTime && lastModified <= lastUpdateTime,
\* lastModified being entry.lastmod or, without one, new Date()
SkipByLastModified(entry, lastUpdateTime, t) ==
  LET lastModified == IF entry.lastmod # NoTime THEN entry.lastmod ELSE t
  IN lastUpdateTime # NoTime /\ lastModified <= lastUpdateTime

\* processEntry up to its first await: the skip rule, then getDocument is called
ProcessEntryStart(entry, lastUpdateTime, t, table) ==
  LET prior == IF \E x \in table : x.url = entry.loc
                 THEN CHOOSE x \in table : x.url = entry.loc
                 ELSE NoDoc
  IN IF SkipByLastModified(entry, lastUpdateTime, t)
       THEN [EntryWaiting EXCEPT !.st = "done", !.action = "skipped",
                                 !.ruleSkipped = TRUE, !.prior = prior]
       ELSE [EntryWaiting EXCEPT !.st = "get", !.prior = prior]

\* batch.map(entry => this.processEntry(entry, lastUpdateTime)) for batch b
BeginBatch(rn, b, t, table) ==
  [rn EXCEPT !.pc = "batch", !.bi = b,
     !.est = [i \in 1..Len(rn.entries) |->
                IF i \in SeqSet(rn.batches[b])
                  THEN ProcessEntryStart(rn.entries[i], rn.lastUpdateTime, t, table)
                  ELSE rn.est[i]]]

\* createBatches and the start of the batch loop; with no batch the loop is
\* skipped and cleanupDeletedDocuments calls getRecentUpdates; a createBatches
\* that does not return leaves the run, and the event loop, in it
StartBatches(rn, lastUpdateTime, t, table, batchSize) ==
  LET n == Len(rn.entries)
      b == CreateBatches([i \in 1..n |-> i], batchSize)
      r1 == [rn EXCEPT !.lastUpdateTime = lastUpdateTime, !.batches = b,
                       !.est = [i \in 1..n |-> EntryWaiting]]
  IN IF CreateBatchesLoops(rn.entries, batchSize)
       THEN [rn EXCEPT !.lastUpdateTime = lastUpdateTime,
                       !.pc = "createBatches"]
     ELSE IF b = <<>> THEN [r1 EXCEPT !.pc = "sweep"]
     ELSE BeginBatch(r1, 1, t, table)

\* variant: a failedStatus that starts from an empty status
CatchRunErrorFresh(rn, msg) ==
  [rn EXCEPT !.pc = "catch",
             !.status = [Status0 EXCEPT !.errors = <<UpdateFailure(msg)>>]]

\* the catch block of performUpdate: failedStatus, then saveUpdateStatus
CatchRunError(rn, msg) ==
  [rn EXCEPT !.pc = "catch",
             !.status.errors = Append(@, UpdateFailure(msg))]

\* the loop over the settled results of one batch
RECURSIVE CountResults(_, _, _)
CountResults(status, est, batch) ==
  IF batch = <<>> THEN status
  ELSE LET e == est[Head(batch)]
           s1 == IF e.error # ""
                   THEN [status EXCEPT !.errors = Append(@, e.error)]
                 ELSE IF e.hasDoc /\ e.action = "created"
                   THEN [status EXCEPT !.newDocuments = @ + 1]
                 ELSE IF e.hasDoc /\ e.action = "updated"
                   THEN [status EXCEPT !.updatedDocuments = @ + 1]
                 ELSE status
       IN CountResults(s1, est, Tail(batch))

\* variant: no minimum length of the extracted content
ProcessDocumentAnyLength(url, body, fetchOk) ==
  IF fetchOk
    THEN [id |-> ProcessorDocumentId(url), url |-> url,
          checksum |-> GenerateChecksum(body)]
    ELSE NoDoc

\* the document processDocument builds from a fetched body, or NoDoc
ProcessDocument(url, body, fetchOk) ==
  IF fetchOk /\ body # "short"
    THEN [id |-> ProcessorDocumentId(url), url |-> url,
          checksum |-> GenerateChecksum(body)]
    ELSE NoDoc

\* ------------------------------------------------------------------- Init
CallIds == 1..MaxCalls

\* a call of processDocument or fetchSitemap that has not been made yet
NoCall == [pc |-> "idle", now |-> NoTime, validRequests |-> <<>>,
           wakeAt |-> NoTime]

\* the scheduler, the updater and the Store after construction
InitUpdater ==
  /\ now = 0
  /\ isRunning = FALSE
  /\ lastTrigger = "none"
  /\ nStarted = 0
  /\ runs = [r \in RunIds |-> IdleRun]
  /\ docs = {}
  /\ ledger = <<>>

\* the scheduler after initializeScheduler (started) or after initialize
\* alone; shutdown has not been called
InitScheduledTask(started) ==
  /\ forceUpdateOnStart = FALSE
  /\ initPc = "done"
  /\ scheduledTask = started
  /\ waitCount = 0
  /\ shutdownPc = "none"

\* DocumentProcessor after construction: an empty rateLimiter map
InitRateLimiter ==
  /\ rateLimiter = <<>>
  /\ calls = [c \in CallIds |-> NoCall]
  /\ fetches = <<>>

\* Spec follows the runs: the limiter delays a fetch and never changes what
\* it returns, so its state is left as constructed
Init ==
  /\ InitUpdater
  /\ maxConcurrentUpdates \in 1..MaxConcurrent
  /\ \E w \in Worlds : sitemaps = w.sitemaps /\ pages = w.pages
  /\ InitRateLimiter
  /\ rateLimitRequests = MaxRequests
  /\ rateLimitWindow = MaxWindow
  /\ InitScheduledTask(TRUE)

\* ------------------------------------------------------------ environment
\* the values a reading of the wall clock, new Date(), may give: the time of
\* the last reading or a later one
ClockReadings == now..MaxTime

ReadClock(t) == now' = t

\* -------------------------------------------------------- UpdateScheduler
\* variant: performUpdate without its isRunning guard
UpdateNeverInProgress == FALSE

\* the guard of UpdateScheduler.performUpdate: if (this.isRunning) return
UpdateInProgress == isRunning

\* variant: the run is started without the force flag of the request
StartRunUnforced(forceUpdate) ==
  /\ nStarted < MaxRuns
  /\ isRunning' = TRUE
  /\ nStarted' = nStarted + 1
  /\ runs' = [runs EXCEPT ![nStarted + 1] =
                [IdleRun EXCEPT !.pc = "sitemaps", !.smIdx = 1]]

\* UpdateScheduler.performUpdate from this.isRunning = true to the first await
\* of SitemapUpdater.performUpdate (the first sitemap request is sent)
StartRun(forceUpdate) ==
  /\ nStarted < MaxRuns
  /\ isRunning' = TRUE
  /\ nStarted' = nStarted + 1
  /\ runs' = [runs EXCEPT ![nStarted + 1] =
                [IdleRun EXCEPT !.pc = "sitemaps", !.force = forceUpdate,
                                !.smIdx = 1]]

\* what the caller of a trigger is told
Answer(kind, forceUpdate, started) ==
  IF started THEN "started" ELSE "in progress"

\* UpdateScheduler.performUpdate(forceUpdate) called directly
ManualTrigger ==
  /\ ProcessAlive /\ Serving
  /\ \E forceUpdate \in BOOLEAN :
       IF UpdateInProgress
         THEN /\ lastTrigger' = Answer("manual", forceUpdate, FALSE)
              /\ UNCHANGED <<isRunning, nStarted, runs>>
         ELSE /\ StartRun(forceUpdate)
              /\ lastTrigger' = Answer("manual", forceUpdate, TRUE)
  /\ UNCHANGED <<now, docs, ledger, maxConcurrentUpdates, sitemaps, pages,
               LimiterVars, ShutdownVars>>

\* the cron callback of startScheduler
CronTrigger ==
  /\ ProcessAlive /\ Serving
  /\ scheduledTask
  /\ IF isRunning \/ UpdateInProgress
       THEN /\ lastTrigger' = Answer("cron", FALSE, FALSE)
            /\ UNCHANGED <<isRunning, nStarted, runs>>
       ELSE /\ StartRun(FALSE)
            /\ lastTrigger' = Answer("cron", FALSE, TRUE)
  /\ UNCHANGED <<now, docs, ledger, maxConcurrentUpdates, sitemaps, pages,
               LimiterVars, ShutdownVars>>

\* MoEngageMCPServer.handleTriggerUpdate({force}): the check of
\* isUpdateRunning(), the call of performUpdate(force), which is not awaited
\* and runs to the first await of the run, and the answer
HandleTriggerUpdate(forceUpdate) ==
  /\ ProcessAlive /\ Serving
  /\ IF isRunning \/ UpdateInProgress
       THEN /\ lastTrigger' = Answer("tool", forceUpdate, FALSE)
            /\ UNCHANGED <<isRunning, nStarted, runs>>
       ELSE /\ StartRun(forceUpdate)
            /\ lastTrigger' = Answer("tool", forceUpdate, TRUE)
  /\ UNCHANGED <<now, docs, ledger, maxConcurrentUpdates, sitemaps, pages,
               LimiterVars, ShutdownVars>>

\* a trigger_update request, with or without force
ToolTrigger == \E forceUpdate \in BOOLEAN : HandleTriggerUpdate(forceUpdate)

\* variant: isRunning reset after the try block only, not in a finally block
IsRunningAfterTryOnly(pc) == pc = "threw"

\* the value of isRunning after the finally block, by how the run ended
IsRunningAfter(pc) == FALSE

\* UpdateScheduler.performUpdate after its await: try or catch, then finally
\* (the run awaited by initialize ends in InitialUpdateEnds)
SchedulerFinally(r) ==
  /\ ProcessAlive /\ initPc # "update"
  /\ runs[r].pc \in {"returned", "threw"}
  /\ isRunning' = IsRunningAfter(runs[r].pc)
  /\ runs' = [runs EXCEPT ![r] = EndedRun]
  /\ UNCHANGED <<now, lastTrigger, nStarted, docs, ledger,
                 maxConcurrentUpdates, sitemaps, pages, LimiterVars,
                 ShutdownVars>>

\* ------------------------------------------ SitemapUpdater.performUpdate
RunFrame == <<isRunning, lastTrigger, nStarted, maxConcurrentUpdates,
              sitemaps, pages, LimiterVars, ShutdownVars>>

SetRun(r, rn) == runs' = [runs EXCEPT ![r] = rn]

Tag(r) == [run |-> r]

\* variant: a forced run that hands processEntry the stored threshold
AfterSitemapsStoredThreshold(rn) ==
  LET r1 == [rn EXCEPT !.entries = FilterDocumentationEntries(rn.all)]
  IN IF r1.force
       THEN StartBatches(r1, GetLastUpdateTime(ledger), now, docs,
                         maxConcurrentUpdates)
       ELSE [r1 EXCEPT !.pc = "getLast"]

\* after the loop over config.sitemapUrls: the filter, then either the await
\* of getLastUpdateStatus or, when forced, the batch loop at once
AfterSitemaps(rn) ==
  LET r1 == [rn EXCEPT !.entries = FilterDocumentationEntries(rn.all)]
  IN IF r1.force
       THEN StartBatches(r1, NoTime, now, docs, maxConcurrentUpdates)
       ELSE [r1 EXCEPT !.pc = "getLast"]

\* variant: a sitemap failure that is not caught inside the loop
FetchSitemapUncaught(r) ==
  /\ ProcessAlive
  /\ runs[r].pc = "sitemaps"
  /\ LET k == runs[r].smIdx
         sitemapUrl == SitemapUrls[k]
         next(rn) == IF k < Len(SitemapUrls)
                       THEN [rn EXCEPT !.smIdx = k + 1]
                       ELSE AfterSitemaps(rn)
         doc == sitemaps[sitemapUrl]
     IN \/ SetRun(r, next([runs[r] EXCEPT !.all = @ \o
               [i \in 1..Len(doc) |->
                  [loc |-> doc[i].loc, lastmod |-> doc[i].lastmod,
                   source |-> sitemapUrl]]]))
        \/ SetRun(r, CatchRunError(runs[r], SitemapFailure(sitemapUrl)))
  /\ UNCHANGED <<now, docs, ledger>>
  /\ UNCHANGED RunFrame

\* one turn of the loop over config.sitemapUrls: fetchSitemap answers
FetchSitemap(r) ==
  /\ ProcessAlive
  /\ runs[r].pc = "sitemaps"
  /\ LET k == runs[r].smIdx
         sitemapUrl == SitemapUrls[k]
         next(rn) == IF k < Len(SitemapUrls)
                       THEN [rn EXCEPT !.smIdx = k + 1]
                       ELSE AfterSitemaps(rn)
         doc == sitemaps[sitemapUrl]
     IN \/ SetRun(r, next([runs[r] EXCEPT !.all = @ \o
               [i \in 1..Len(doc) |->
                  [loc |-> doc[i].loc, lastmod |-> doc[i].lastmod,
                   source |-> sitemapUrl]]]))
        \/ SetRun(r, next([runs[r] EXCEPT !.status.errors =
                             Append(@, SitemapFailure(sitemapUrl))]))
  /\ UNCHANGED <<now, docs, ledger>>
  /\ UNCHANGED RunFrame

\* await this.database.getLastUpdateStatus() answers
GetLastUpdateStatus(r) ==
  /\ ProcessAlive
  /\ runs[r].pc = "getLast"
  /\ \/ \E t \in ClockReadings :
          /\ ReadClock(t)
          /\ SetRun(r, StartBatches(runs[r], GetLastUpdateTime(ledger), t, docs,
                                    maxConcurrentUpdates))
     \/ /\ now' = now
        /\ SetRun(r, CatchRunError(runs[r], StoreError))
  /\ UNCHANGED <<docs, ledger>>
  /\ UNCHANGED RunFrame

CurrentBatch(rn) == SeqSet(rn.batches[rn.bi])

\* variant: an entry that ends in error rejects the whole batch (Promise.all)
SetEntryRejecting(r, i, e) ==
  runs' = [runs EXCEPT ![r].est =
             [j \in 1..Len(runs[r].est) |->
                IF j = i THEN e
                ELSE IF /\ e.error # "" /\ j \in CurrentBatch(runs[r])
                        /\ runs[r].est[j].st # "done"
                  THEN [runs[r].est[j] EXCEPT !.st = "done",
                                              !.error = "cancelled"]
                ELSE runs[r].est[j]]]

\* processEntry of entry i goes on to its next await, or returns
SetEntry(r, i, e) == runs' = [runs EXCEPT ![r].est[i] = e]

\* processEntry: await this.database.getDocument(documentId) answers, and
\* processDocument is called
EntryGetDocument(r, i) ==
  /\ ProcessAlive
  /\ runs[r].pc = "batch" /\ i \in CurrentBatch(runs[r])
  /\ runs[r].est[i].st = "get"
  /\ LET e == runs[r].est[i]
         url == runs[r].entries[i].loc
     IN \/ SetEntry(r, i, [e EXCEPT !.st = "fetch",
             !.existing = GetDocument(docs, UpdaterDocumentId(url))])
        \/ SetEntry(r, i, [e EXCEPT !.st = "done",
             !.error = EntryFailure(url, StoreError)])
  /\ UNCHANGED <<now, docs, ledger>>
  /\ UNCHANGED RunFrame

\* processEntry: processDocument answers; the checksums are compared and
\* upsertDocument is called
ProcessDocumentAnswers(r, i) ==
  /\ ProcessAlive
  /\ runs[r].pc = "batch" /\ i \in CurrentBatch(runs[r])
  /\ runs[r].est[i].st = "fetch"
  /\ \E fetchOk \in BOOLEAN :
       LET e == [runs[r].est[i] EXCEPT !.fetched = TRUE]
           url == runs[r].entries[i].loc
           newDocument == ProcessDocument(url, pages[url], fetchOk)
       IN SetEntry(r, i,
            IF newDocument = NoDoc
              THEN [e EXCEPT !.st = "done", !.error = DocumentFailure(url)]
            ELSE IF e.existing # NoDoc
                    /\ e.existing.checksum = newDocument.checksum
              THEN [e EXCEPT !.st = "done", !.action = "skipped"]
            ELSE [e EXCEPT !.st = "upsert", !.doc = newDocument])

\* the same, in the specifications that keep no list of the requests sent
EntryProcessDocument(r, i) ==
  /\ ProcessDocumentAnswers(r, i)
  /\ UNCHANGED <<now, docs, ledger>>
  /\ UNCHANGED RunFrame

\* processEntry: await this.database.upsertDocument(newDocument) answers
EntryUpsert(r, i) ==
  /\ ProcessAlive
  /\ runs[r].pc = "batch" /\ i \in CurrentBatch(runs[r])
  /\ runs[r].est[i].st = "upsert"
  /\ LET e == runs[r].est[i]
         url == runs[r].entries[i].loc
     IN \/ /\ docs' = UpsertDocument(docs, e.doc)
           /\ SetEntry(r, i, [e EXCEPT !.st = "done", !.hasDoc = TRUE,
                !.wrote = TRUE,
                !.action = IF e.existing # NoDoc THEN "updated" ELSE "created"])
        \/ /\ docs' = docs
           /\ SetEntry(r, i, [e EXCEPT !.st = "done",
                !.error = EntryFailure(url, StoreError)])
  /\ UNCHANGED <<now, ledger>>
  /\ UNCHANGED RunFrame

\* variant: the batch's promises are not awaited
NotAwaited(rn) == TRUE

\* Promise.allSettled resolves: every processEntry of the batch has returned
AllSettled(rn) == \A i \in CurrentBatch(rn) : rn.est[i].st = "done"

\* Promise.allSettled answers: the results are counted; then the pause
\* before the next batch, or cleanupDeletedDocuments calls getRecentUpdates
BatchSettled(r) ==
  /\ ProcessAlive
  /\ runs[r].pc = "batch"
  /\ AllSettled(runs[r])
  /\ LET rn == runs[r]
         st == CountResults(rn.status, rn.est, rn.batches[rn.bi])
     IN SetRun(r, [rn EXCEPT !.status = st,
                     !.pc = IF rn.bi < Len(rn.batches) THEN "pause" ELSE "sweep"])
  /\ UNCHANGED <<now, docs, ledger>>
  /\ UNCHANGED RunFrame

\* the one-second pause between batches ends
NextBatch(r) ==
  /\ ProcessAlive
  /\ runs[r].pc = "pause"
  /\ \E t \in ClockReadings :
       /\ ReadClock(t)
       /\ SetRun(r, BeginBatch(runs[r], runs[r].bi + 1, t, docs))
  /\ UNCHANGED <<docs, ledger>>
  /\ UNCHANGED RunFrame

\* cleanupDeletedDocuments has returned deletedCount: status.deletedDocuments
\* is set and getTotalDocumentCount is called
SweepReturns(rn, deletedCount) ==
  [rn EXCEPT !.pc = "count", !.toDel = {}, !.deletedCount = 0,
             !.status.deletedDocuments = deletedCount]

\* cleanupDeletedDocuments: getRecentUpdates answers
SweepRead(r) ==
  /\ ProcessAlive
  /\ runs[r].pc = "sweep"
  /\ \/ \E existingDocuments \in GetRecentUpdates(docs, SweepLimit) :
          LET currentUrls == {runs[r].entries[i].loc :
                                i \in 1..Len(runs[r].entries)}
              gone == {d \in existingDocuments : d.url \notin currentUrls}
          IN SetRun(r, IF gone = {} THEN SweepReturns(runs[r], 0)
                       ELSE [runs[r] EXCEPT !.pc = "sweepDel", !.toDel = gone,
                                            !.deletedCount = 0])
     \/ SetRun(r, SweepReturns(runs[r], 0))
  /\ UNCHANGED <<now, docs, ledger>>
  /\ UNCHANGED RunFrame

\* the run goes on as rn after deleteDocument has removed the rows gone
Removed(r, rn, gone) ==
  SetRun(r, [rn EXCEPT !.removed = @ + Cardinality(gone)])

\* cleanupDeletedDocuments: one deleteDocument answers
SweepDelete(r) ==
  /\ ProcessAlive
  /\ runs[r].pc = "sweepDel"
  /\ \/ \E d \in runs[r].toDel :
          /\ docs' = DeleteDocument(docs, d.id)
          /\ Removed(r, IF runs[r].toDel = {d}
                         THEN SweepReturns(runs[r], runs[r].deletedCount + 1)
                         ELSE [runs[r] EXCEPT !.toDel = @ \ {d},
                                              !.deletedCount = @ + 1],
                       {d})
     \/ /\ docs' = docs
        /\ SetRun(r, SweepReturns(runs[r], 0))
  /\ UNCHANGED <<now, ledger>>
  /\ UNCHANGED RunFrame

\* await this.database.getTotalDocumentCount() answers
CountDocuments(r) ==
  /\ ProcessAlive
  /\ runs[r].pc = "count"
  /\ \/ SetRun(r, [runs[r] EXCEPT !.pc = "save",
                     !.status.totalDocuments = GetTotalDocumentCount(docs)])
     \/ SetRun(r, CatchRunError(runs[r], StoreError))
  /\ UNCHANGED <<now, docs, ledger>>
  /\ UNCHANGED RunFrame

\* await this.database.saveUpdateStatus(status) answers
SaveStatus(r) ==
  /\ ProcessAlive
  /\ runs[r].pc = "save"
  /\ \/ \E t \in ClockReadings :
          /\ ReadClock(t)
          /\ ledger' = SaveUpdateStatus(ledger, runs[r].status, t, Tag(r))
          /\ SetRun(r, [runs[r] EXCEPT !.pc = "returned"])
     \/ /\ UNCHANGED <<now, ledger>>
        /\ SetRun(r, CatchRunError(runs[r], StoreError))
  /\ UNCHANGED docs
  /\ UNCHANGED RunFrame

\* the catch block: await this.database.saveUpdateStatus(failedStatus) answers
SaveFailedStatus(r) ==
  /\ ProcessAlive
  /\ runs[r].pc = "catch"
  /\ \/ \E t \in ClockReadings :
          /\ ReadClock(t)
          /\ ledger' = SaveUpdateStatus(ledger, runs[r].status, t, Tag(r))
          /\ SetRun(r, [runs[r] EXCEPT !.pc = "returned"])
     \/ /\ UNCHANGED <<now, ledger>>
        /\ SetRun(r, [runs[r] EXCEPT !.pc = "threw"])
  /\ UNCHANGED docs
  /\ UNCHANGED RunFrame

\* ------------------------------------------------------------------- Next
Next ==
  \/ ManualTrigger
  \/ CronTrigger
  \/ ToolTrigger
  \/ \E r \in RunIds :
       \/ FetchSitemap(r)
       \/ GetLastUpdateStatus(r)
       \/ BatchSettled(r)
       \/ NextBatch(r)
       \/ SweepRead(r)
       \/ SweepDelete(r)
       \/ CountDocuments(r)
       \/ SaveStatus(r)
       \/ SaveFailedStatus(r)
       \/ SchedulerFinally(r)
       \/ \E i \in 1..Len(runs[r].entries) :
            \/ EntryGetDocument(r, i)
            \/ EntryProcessDocument(r, i)
            \/ EntryUpsert(r, i)

Spec == Init /\ [][Next]_vars

\* ------------------------------------------------- DocumentProcessor limiter
UpdaterVars == <<isRunning, lastTrigger, nStarted, runs, docs, ledger,
                 maxConcurrentUpdates, sitemaps, pages, ShutdownVars>>

\* requests.filter(time => now - time < config.rateLimitWindow)
ValidRequests(requests, t) ==
  SelectSeq(requests, LAMBDA time : t - time < rateLimitWindow)

\* Math.min(...validRequests)
OldestRequest(validRequests) ==
  CHOOSE x \in SeqSet(validRequests) : \A y \in SeqSet(validRequests) : x <= y

\* axios.get is called: a request of that kind is sent at time t by call c
SendRequest(kind, c, t) ==
  fetches' = Append(fetches, [kind |-> kind, call |-> c, at |-> t])

\* processDocument is called: checkRateLimit runs up to its await, or, with
\* room in the window, to its end, and the page is requested
ProcessDocumentCall(c) ==
  /\ calls[c].pc = "idle"
  /\ \E t \in ClockReadings :
       /\ ReadClock(t)
       /\ LET validRequests == ValidRequests(rateLimiter, t)
          IN IF Len(validRequests) >= rateLimitRequests
               THEN /\ calls' = [calls EXCEPT ![c] =
                          [pc |-> "waiting", now |-> t,
                           validRequests |-> validRequests,
                           wakeAt |-> t + (rateLimitWindow
                                          - (t - OldestRequest(validRequests)))]]
                    /\ UNCHANGED <<rateLimiter, fetches>>
               ELSE /\ rateLimiter' = Append(validRequests, t)
                    /\ calls' = [calls EXCEPT ![c] =
                          [NoCall EXCEPT !.pc = "done", !.now = t]]
                    /\ SendRequest("document", c, t)
  /\ UNCHANGED <<rateLimitRequests, rateLimitWindow>>
  /\ UNCHANGED UpdaterVars

\* the setTimeout of checkRateLimit fires, not before waitTime has passed:
\* the call pushes its own now to its own validRequests, stores that, and the
\* page is requested
RateLimitTimer(c) ==
  /\ calls[c].pc = "waiting"
  /\ \E t \in ClockReadings :
       /\ t >= calls[c].wakeAt
       /\ ReadClock(t)
       /\ rateLimiter' = Append(calls[c].validRequests, calls[c].now)
       /\ calls' = [calls EXCEPT ![c] =
                      [NoCall EXCEPT !.pc = "done", !.now = calls[c].now]]
       /\ SendRequest("document", c, t)
  /\ UNCHANGED <<rateLimitRequests, rateLimitWindow>>
  /\ UNCHANGED UpdaterVars

\* fetchSitemap is called: the sitemap is requested at once
FetchSitemapCall(c) ==
  /\ calls[c].pc = "idle"
  /\ \E t \in ClockReadings :
       /\ ReadClock(t)
       /\ calls' = [calls EXCEPT ![c] =
                      [NoCall EXCEPT !.pc = "done", !.now = t]]
       /\ SendRequest("sitemap", c, t)
  /\ UNCHANGED <<rateLimitRequests, rateLimitWindow, rateLimiter>>
  /\ UNCHANGED UpdaterVars

\* one DocumentProcessor, its configuration, and calls made at any times
InitLimiter ==
  /\ InitUpdater
  /\ maxConcurrentUpdates = MaxConcurrent
  /\ \E w \in Worlds : sitemaps = w.sitemaps /\ pages = w.pages
  /\ InitRateLimiter
  /\ rateLimitRequests \in 1..MaxRequests
  /\ rateLimitWindow \in 1..MaxWindow
  /\ InitScheduledTask(TRUE)

NextLimiter ==
  \E c \in CallIds :
    \/ ProcessDocumentCall(c)
    \/ RateLimitTimer(c)
    \/ FetchSitemapCall(c)

SpecLimiter == InitLimiter /\ [][NextLimiter]_vars

\* ------------------------------------------------------------ http-server
\* POST /update: sitemapUpdater.performUpdate(true) is called on the server's
\* own SitemapUpdater, whatever runs are in progress, and runs to its first
\* await; the scheduler's isRunning is neither read nor written
HttpUpdate ==
  /\ ProcessAlive /\ Serving
  /\ nStarted < MaxRuns
  /\ nStarted' = nStarted + 1
  /\ runs' = [runs EXCEPT ![nStarted + 1] =
                [IdleRun EXCEPT !.pc = "sitemaps", !.force = TRUE,
                                !.smIdx = 1]]
  /\ UNCHANGED <<now, isRunning, lastTrigger, docs, ledger,
                 maxConcurrentUpdates, sitemaps, pages, LimiterVars,
                 ShutdownVars>>

\* POST /update after its await: res.json(result) or res.status(500)
HttpRespond(r) ==
  /\ ProcessAlive
  /\ runs[r].pc \in {"returned", "threw"}
  /\ runs' = [runs EXCEPT ![r] = EndedRun]
  /\ UNCHANGED <<now, isRunning, lastTrigger, nStarted, docs, ledger,
                 maxConcurrentUpdates, sitemaps, pages, LimiterVars,
                 ShutdownVars>>

\* the server after app.listen: its scheduler is initialised and never
\* started, so every run is one of a POST /update request and is forced
NextHttp ==
  \/ HttpUpdate
  \/ \E r \in RunIds :
       \/ FetchSitemap(r)
       \/ BatchSettled(r)
       \/ NextBatch(r)
       \/ SweepRead(r)
       \/ SweepDelete(r)
       \/ CountDocuments(r)
       \/ SaveStatus(r)
       \/ SaveFailedStatus(r)
       \/ HttpRespond(r)
       \/ \E i \in 1..Len(runs[r].entries) :
            \/ EntryGetDocument(r, i)
            \/ EntryProcessDocument(r, i)
            \/ EntryUpsert(r, i)

\* the server's handlers never read the batch size: it is left at one entry
\* per batch, where a run has the most steps of its own
InitHttp ==
  /\ InitUpdater
  /\ maxConcurrentUpdates = 1
  /\ \E w \in Worlds : sitemaps = w.sitemaps /\ pages = w.pages
  /\ InitRateLimiter
  /\ rateLimitRequests = MaxRequests
  /\ rateLimitWindow = MaxWindow
  /\ InitScheduledTask(FALSE)

SpecHttp == InitHttp /\ [][NextHttp]_vars

\* ------------------------------------------------ a source that changes
\* a dated article, which the site may change while the runs fetch it, and a
\* page without lastmod whose body is too short to be stored
InitChange ==
  /\ InitUpdater
  /\ maxConcurrentUpdates = 1
  /\ sitemaps = [s \in SeqSet(SitemapUrls) |->
                   IF s = SitemapUrls[1] THEN <<Entry(UrlArticle, 0)>>
                   ELSE <<Entry(UrlHelpHome, NoTime)>>]
  /\ pages = [u \in Urls |-> IF u = UrlHelpHome THEN "short" ELSE "c1"]
  /\ InitRateLimiter
  /\ rateLimitRequests = MaxRequests
  /\ rateLimitWindow = MaxWindow
  /\ InitScheduledTask(TRUE)

\* the site edits a dated page: a new body, and the sitemap gives the time
\* of the edit as its lastmod
SourceChange ==
  /\ \E s \in SeqSet(SitemapUrls) : \E i \in 1..Len(sitemaps[s]) :
       /\ sitemaps[s][i].lastmod # NoTime
       /\ pages[sitemaps[s][i].loc] = "c1"
       /\ \E t \in ClockReadings :
            /\ ReadClock(t)
            /\ sitemaps' = [sitemaps EXCEPT ![s][i].lastmod = t]
       /\ pages' = [pages EXCEPT ![sitemaps[s][i].loc] = "c2"]
  /\ UNCHANGED <<isRunning, lastTrigger, nStarted, runs, docs, ledger,
                 maxConcurrentUpdates, LimiterVars, ShutdownVars>>

\* processEntry: processDocument answers, the request it sent being listed
\* with the time it was sent at
EntryProcessDocumentAt(r, i) ==
  /\ ProcessDocumentAnswers(r, i)
  /\ fetches' = Append(fetches, [kind |-> "document",
                                 url |-> runs[r].entries[i].loc, at |-> now])
  /\ UNCHANGED <<now, docs, ledger, isRunning, lastTrigger, nStarted,
                 maxConcurrentUpdates, sitemaps, pages, rateLimitRequests,
                 rateLimitWindow, rateLimiter, calls, ShutdownVars>>

NextChange ==
  \/ SourceChange
  \/ ManualTrigger
  \/ CronTrigger
  \/ ToolTrigger
  \/ \E r \in RunIds :
       \/ FetchSitemap(r)
       \/ GetLastUpdateStatus(r)
       \/ BatchSettled(r)
       \/ NextBatch(r)
       \/ SweepRead(r)
       \/ SweepDelete(r)
       \/ CountDocuments(r)
       \/ SaveStatus(r)
       \/ SaveFailedStatus(r)
       \/ SchedulerFinally(r)
       \/ \E i \in 1..Len(runs[r].entries) :
            \/ EntryGetDocument(r, i)
            \/ EntryProcessDocumentAt(r, i)
            \/ EntryUpsert(r, i)

SpecChange == InitChange /\ [][NextChange]_vars

\* ------------------------------------------------------ a URL listed twice
\* the developers sitemap lists the article twice
InitRepeated ==
  /\ InitUpdater
  /\ maxConcurrentUpdates \in 1..MaxConcurrent
  /\ sitemaps = [s \in SeqSet(SitemapUrls) |->
                   IF s = SitemapUrls[1]
                     THEN <<Entry(UrlArticle, NoTime), Entry(UrlArticle, NoTime)>>
                     ELSE <<>>]
  /\ pages = [u \in Urls |-> "c1"]
  /\ InitRateLimiter
  /\ rateLimitRequests = MaxRequests
  /\ rateLimitWindow = MaxWindow
  /\ InitScheduledTask(TRUE)

SpecRepeated == InitRepeated /\ [][Next]_vars

\* ---------------------------------------------------------- createBatches
\* the lists of up to MaxItems sitemap entries
ItemLists ==
  UNION {[1..n -> {Entry(u, NoTime) : u \in Urls}] : n \in 0..MaxItems}

\* createBatches alone: docEntries is any list, batchSize any size from 1 on
InitBatches ==
  /\ now = 0
  /\ isRunning = FALSE
  /\ lastTrigger = "none"
  /\ nStarted = 0
  /\ \E items \in ItemLists :
       runs = [r \in RunIds |->
                 IF r = 1 THEN [IdleRun EXCEPT !.entries = items] ELSE IdleRun]
  /\ docs = {}
  /\ ledger = <<>>
  /\ maxConcurrentUpdates \in 1..MaxConcurrent
  /\ \E w \in Worlds :
       /\ w.pages[UrlHelpHome] = "short"
       /\ sitemaps = w.sitemaps /\ pages = w.pages
  /\ InitRateLimiter
  /\ rateLimitRequests = MaxRequests
  /\ rateLimitWindow = MaxWindow
  /\ InitScheduledTask(TRUE)

\* const batches = this.createBatches(docEntries, batchSize)
CreateBatchesCall ==
  /\ runs[1].pc = "idle"
  /\ runs' = [runs EXCEPT ![1].pc = "batched",
                          ![1].batches = CreateBatches(runs[1].entries,
                                                       maxConcurrentUpdates)]
  /\ UNCHANGED <<now, isRunning, lastTrigger, nStarted, docs, ledger,
                 maxConcurrentUpdates, sitemaps, pages, LimiterVars,
                 ShutdownVars>>

SpecBatches == InitBatches /\ [][CreateBatchesCall]_vars

\* ------------------------------------------------------------- initialize
\* variant: the initial update is performed whatever the configuration
InitialUpdateAlways(flag) == TRUE

\* if (config.forceUpdateOnStart)
InitialUpdate(flag) == flag

\* initializeScheduler from new UpdateScheduler() on: database.initialize()
\* answers; then either performUpdate(true) is called and awaited, or
\* initialize returns and startScheduler() sets the scheduled task; a
\* rejection ends the process (start: process.exit(1))
Initialize ==
  /\ ProcessAlive
  /\ initPc = "initialize"
  /\ \/ /\ InitialUpdate(forceUpdateOnStart)
        /\ StartRun(TRUE)
        /\ initPc' = "update"
        /\ UNCHANGED scheduledTask
     \/ /\ ~InitialUpdate(forceUpdateOnStart)
        /\ initPc' = "done"
        /\ scheduledTask' = TRUE
        /\ UNCHANGED <<isRunning, nStarted, runs>>
     \/ /\ initPc' = "failed"
        /\ UNCHANGED <<isRunning, nStarted, runs, scheduledTask>>
  /\ UNCHANGED <<now, lastTrigger, docs, ledger, maxConcurrentUpdates,
                 sitemaps, pages, LimiterVars, waitCount, shutdownPc,
                 forceUpdateOnStart>>

\* the run awaited by initialize ends: the finally block of performUpdate,
\* then initialize returns and startScheduler() sets the scheduled task
InitialUpdateEnds(r) ==
  /\ ProcessAlive
  /\ initPc = "update"
  /\ runs[r].pc \in {"returned", "threw"}
  /\ isRunning' = IsRunningAfter(runs[r].pc)
  /\ runs' = [runs EXCEPT ![r] = EndedRun]
  /\ initPc' = "done"
  /\ scheduledTask' = TRUE
  /\ UNCHANGED <<now, lastTrigger, nStarted, docs, ledger,
                 maxConcurrentUpdates, sitemaps, pages, LimiterVars,
                 waitCount, shutdownPc, forceUpdateOnStart>>

\* the server from the call of initializeScheduler on
NextStartup ==
  \/ Initialize
  \/ \E r \in RunIds : InitialUpdateEnds(r)
  \/ Next

\* either value of FORCE_UPDATE_ON_START; one entry per batch, the sources
\* with an article beside a page with too little text, one clock reading
InitStartup ==
  /\ now = MaxTime
  /\ isRunning = FALSE
  /\ lastTrigger = "none"
  /\ nStarted = 0
  /\ runs = [r \in RunIds |-> IdleRun]
  /\ docs = {}
  /\ ledger = <<>>
  /\ maxConcurrentUpdates = 1
  /\ \E w \in Worlds :
       /\ w.pages[UrlHelpHome] = "short"
       /\ sitemaps = w.sitemaps /\ pages = w.pages
  /\ InitRateLimiter
  /\ rateLimitRequests = MaxRequests
  /\ rateLimitWindow = MaxWindow
  /\ forceUpdateOnStart \in BOOLEAN
  /\ initPc = "initialize"
  /\ scheduledTask = FALSE
  /\ waitCount = 0
  /\ shutdownPc = "none"

SpecStartup == InitStartup /\ [][NextStartup]_vars

\* --------------------------------------------------------------- shutdown
\* the polls of shutdown: while (this.isRunning && waitCount < 30)
ShutdownPolls == 30

\* the loop condition of shutdown
KeepWaiting(running, count) == running /\ count < ShutdownPolls

\* shutdown from the loop condition on: either a one-second timer is set, or
\* the loop is left and database.close() is called; process.exit follows
AwaitRunOrClose(count) ==
  /\ waitCount' = count
  /\ shutdownPc' = IF KeepWaiting(isRunning, count) THEN "wait" ELSE "closed"

\* SIGINT or SIGTERM: shutdown() is called: stopScheduler(), waitCount = 0,
\* then the loop
Shutdown ==
  /\ initPc # "failed"
  /\ shutdownPc = "none"
  /\ scheduledTask' = FALSE
  /\ AwaitRunOrClose(0)
  /\ UNCHANGED <<now, isRunning, lastTrigger, nStarted, runs, docs, ledger,
                 maxConcurrentUpdates, sitemaps, pages, LimiterVars,
                 forceUpdateOnStart, initPc>>

\* the timer of the loop fires: waitCount++, then the loop condition again
ShutdownTimer ==
  /\ shutdownPc = "wait"
  /\ AwaitRunOrClose(waitCount + 1)
  /\ UNCHANGED <<now, isRunning, lastTrigger, nStarted, runs, docs, ledger,
                 maxConcurrentUpdates, sitemaps, pages, LimiterVars,
                 scheduledTask, forceUpdateOnStart, initPc>>

\* the server with its signal handlers: the process ends after shutdown
NextShutdown ==
  \/ NextStartup
  \/ Shutdown
  \/ ShutdownTimer

\* the signal may arrive from the call of initializeScheduler on: the
\* handlers are installed when the module is loaded
SpecShutdown == InitStartup /\ [][NextShutdown]_vars

\* ------------------------------------------------------------ termination
\* the steps of a run and of the scheduler's finally block: callbacks the
\* event loop runs once their request, timer or Store call has completed
RunStep ==
  \E r \in RunIds :
    \/ FetchSitemap(r)
    \/ GetLastUpdateStatus(r)
    \/ BatchSettled(r)
    \/ NextBatch(r)
    \/ SweepRead(r)
    \/ SweepDelete(r)
    \/ CountDocuments(r)
    \/ SaveStatus(r)
    \/ SaveFailedStatus(r)
    \/ SchedulerFinally(r)
    \/ \E i \in 1..Len(runs[r].entries) :
         \/ EntryGetDocument(r, i)
         \/ EntryProcessDocument(r, i)
         \/ EntryUpsert(r, i)

\* the values of MAX_CONCURRENT_UPDATES considered: z.number() accepts 0
InitTermination ==
  /\ now = MaxTime
  /\ isRunning = FALSE
  /\ lastTrigger = "none"
  /\ nStarted = 0
  /\ runs = [r \in RunIds |-> IdleRun]
  /\ docs = {}
  /\ ledger = <<>>
  /\ maxConcurrentUpdates \in 0..1
  /\ \E w \in Worlds :
       /\ w.pages[UrlHelpHome] = "short"
       /\ sitemaps = w.sitemaps /\ pages = w.pages
  /\ InitRateLimiter
  /\ rateLimitRequests = MaxRequests
  /\ rateLimitWindow = MaxWindow
  /\ InitScheduledTask(TRUE)

\* every network call completes or times out and every Store call answers:
\* a run's next step is taken
SpecTermination == InitTermination /\ [][Next]_vars /\ WF_vars(RunStep)

\* ------------------------------------------------------ get_update_status
\* SELECT * FROM update_status ORDER BY lastUpdate DESC LIMIT 1: the rows it
\* can return, SQL leaving the order of rows with equal lastUpdate open
GetLastUpdateStatusRows(rows) ==
  {rows[k] : k \in {j \in 1..Len(rows) :
                     rows[j].lastUpdate = GetLastUpdateTime(rows)}}

NoStatusText == "No update status available. Run an update first."

\* the answer of handleGetUpdateStatus when the ledger is empty: the text alone
NoStatusAnswer ==
  [text |-> NoStatusText, lastUpdate |-> NoTime, currentlyRunning |-> "",
   totalDocuments |-> 0, newDocuments |-> 0, updatedDocuments |-> 0,
   deletedDocuments |-> 0, errors |-> <<>>]

\* handleGetUpdateStatus with the scheduler initialised: the answers it can
\* give when the ledger is rows and isUpdateRunning() returns running (the
\* flag is read after the entry; here both are read in one state)
HandleGetUpdateStatus(rows, running) ==
  IF GetLastUpdateStatusRows(rows) = {}
    THEN {NoStatusAnswer}
    ELSE {[text |-> "# Documentation Update Status",
           lastUpdate |-> status.lastUpdate,
           currentlyRunning |-> IF running THEN "Yes" ELSE "No",
           totalDocuments |-> status.totalDocuments,
           newDocuments |-> status.newDocuments,
           updatedDocuments |-> status.updatedDocuments,
           deletedDocuments |-> status.deletedDocuments,
           errors |-> SubSeq(status.errors, 1, Min(5, Len(status.errors)))] :
          status \in GetLastUpdateStatusRows(rows)}

\* ------------------------------------------------ the Store's timestamps
\* Spec leaves createdAt and updatedAt out of the rows of docs, no step of a
\* run reading them; SpecStore keeps them and follows the Store alone.
StoreVars == <<isRunning, lastTrigger, nStarted, runs, ledger,
               maxConcurrentUpdates, sitemaps, pages, ShutdownVars>>

\* variant: createdAt is the time of the upsert
CreatedAtNow(table, id, t) == t

\* COALESCE((SELECT createdAt FROM documents WHERE id = ?), ?)
CreatedAt(table, id, t) ==
  IF \E x \in table : x.id = id
    THEN (CHOOSE x \in table : x.id = id).createdAt
    ELSE t

\* the row upsertDocument writes at time t
DocumentRow(table, document, t) ==
  [id |-> document.id, url |-> document.url, checksum |-> document.checksum,
   createdAt |-> CreatedAt(table, document.id, t), updatedAt |-> t]

\* the documents processDocument can hand to the Store
StoreDocuments ==
  {ProcessDocument(url, body, TRUE) : url \in Urls, body \in {"c1", "c2"}}

\* upsertDocument(document): now = new Date(), then the statement, which may
\* be rejected
UpsertDocumentCall ==
  \E document \in StoreDocuments, t \in ClockReadings :
    /\ ReadClock(t)
    /\ \/ docs' = UpsertDocument(docs, DocumentRow(docs, document, t))
       \/ docs' = docs
    /\ UNCHANGED StoreVars
    /\ UNCHANGED LimiterVars

\* deleteDocument(id)
DeleteDocumentCall ==
  \E document \in StoreDocuments :
    /\ docs' = DeleteDocument(docs, document.id)
    /\ UNCHANGED now
    /\ UNCHANGED StoreVars
    /\ UNCHANGED LimiterVars

NextStore ==
  \/ UpsertDocumentCall
  \/ DeleteDocumentCall

SpecStore == Init /\ [][NextStore]_vars

\* ----------------------------------------------------------------- claims
ActiveRuns == {r \in RunIds : Active(r)}

\* the ledger rows that run r appended
RowsOf(r) == {k \in 1..Len(ledger) : ledger[k].tag.run = r}

\* (r, i): entry i of run r, once processEntry has been called for it
Called ==
  UNION {{<<r, i>> : i \in {j \in 1..Len(runs[r].est) :
                               runs[r].est[j].st # "wait"}} : r \in RunIds}

EntryOf(p) == runs[p[1]].entries[p[2]]
StateOf(p) == runs[p[1]].est[p[2]]

\* the batch loop and the sweep of run r are over
AfterSweep(r) == runs[r].pc \in {"count", "save", "returned"}

\* C1: at most one run of SitemapUpdater.performUpdate is in progress at any
\* time, and while isRunning is true no step starts a run, and a step that is
\* not a step of the run in progress (a rejected trigger) appends no ledger
\* entry.
C1_NoOverlap ==
  /\ [](Cardinality(ActiveRuns) <= 1)
  /\ [][isRunning => /\ nStarted' = nStarted
                     /\ (runs' = runs => ledger' = ledger)]_vars

\* C1 witness: a trigger was answered "in progress" while a run is under way
C1_Witness ==
  isRunning /\ lastTrigger = "in progress" /\ Cardinality(ActiveRuns) = 1

\* C2 as stated: every run that has ended appended exactly one ledger entry.
C2_OneEntryPerRun ==
  \A r \in RunIds :
    runs[r].pc \in {"returned", "threw", "ended"} =>
      Cardinality(RowsOf(r)) = 1

\* C3: when no run is in progress isRunning is false, also after a run that
\* threw, and the next trigger then starts a run.
C3_BackToIdle ==
  /\ [](ActiveRuns = {} => ~isRunning)
  /\ [][ActiveRuns = {} => nStarted' = nStarted + 1 /\ isRunning']_vars

\* C3 witness: the first run threw (it left no ledger entry) and the trigger
\* after it was accepted
C3_Witness ==
  /\ runs[1].pc = "ended" /\ RowsOf(1) = {}
  /\ nStarted = 2 /\ lastTrigger = "started"

\* C4: in a run that is not forced, an entry whose lastmod is at or before the
\* timestamp the Store returned as the last run is skipped at once:
\* processDocument is not called for it, nothing is written for it, and its
\* outcome is skipped.
C4_SkipRule ==
  \A p \in Called :
    ( /\ ~runs[p[1]].force
      /\ EntryOf(p).lastmod # NoTime
      /\ runs[p[1]].lastUpdateTime # NoTime
      /\ EntryOf(p).lastmod <= runs[p[1]].lastUpdateTime )
    => /\ StateOf(p).st = "done" /\ StateOf(p).action = "skipped"
       /\ StateOf(p).error = ""
       /\ ~StateOf(p).fetched /\ ~StateOf(p).wrote

\* C4 witness: an entry dated exactly at the threshold has been skipped
C4_Witness ==
  \E p \in Called :
    /\ ~runs[p[1]].force
    /\ EntryOf(p).lastmod # NoTime
    /\ EntryOf(p).lastmod = runs[p[1]].lastUpdateTime
    /\ StateOf(p).action = "skipped" /\ ~StateOf(p).fetched

\* a ledger row of a run that ended as failed: it carries a run-level error
FailedRow(row) == UpdateFailure(StoreError) \in SeqSet(row.errors)

\* the timestamp of the last successful run in the ledger, if any
LastSuccessfulTime ==
  LET ok == {k \in 1..Len(ledger) : ~FailedRow(ledger[k])}
  IN IF ok = {} THEN NoTime
     ELSE CHOOSE t \in {ledger[k].lastUpdate : k \in ok} :
            \A k \in ok : ledger[k].lastUpdate <= t

\* C5 as stated: the threshold a run that is not forced works with is the
\* timestamp of the last successful run; failed runs do not raise it.
C5_ThresholdIsLastSuccess ==
  \A r \in RunIds :
    ( /\ ~runs[r].force
      /\ runs[r].pc \in {"batch", "pause", "sweep", "sweepDel", "count", "save"} )
    => runs[r].lastUpdateTime = LastSuccessfulTime

\* C6 as stated: an entry without lastmod is never skipped by the
\* lastModified rule.
C6_NoLastmodNeverSkipped ==
  \A p \in Called :
    EntryOf(p).lastmod = NoTime => ~StateOf(p).ruleSkipped

C8_OutcomeByUrl ==
  \A p \in Called :
    LET s == StateOf(p)
        new == GenerateChecksum(pages[EntryOf(p).loc])
    IN (s.st = "done" /\ s.fetched /\ s.error = "") =>
         /\ (s.action = "created" /\ s.hasDoc) <=> s.prior = NoDoc
         /\ (s.action = "updated" /\ s.hasDoc) <=>
              (s.prior # NoDoc /\ s.prior.checksum # new)
         /\ (s.action = "skipped" /\ ~s.wrote) <=>
              (s.prior # NoDoc /\ s.prior.checksum = new)

\* C9 as stated: when two runs follow each other over the same sources and
\* neither met an error, the second reports no new and no updated document
\* and the same total as the first.
C9_Idempotent ==
  \A j \in 1..Len(ledger), k \in 1..Len(ledger) :
    ( /\ ledger[k].tag.run = ledger[j].tag.run + 1
      /\ ledger[j].errors = <<>> /\ ledger[k].errors = <<>> )
    => /\ ledger[k].newDocuments = 0
       /\ ledger[k].updatedDocuments = 0
       /\ ledger[k].totalDocuments = ledger[j].totalDocuments

\* C10 as stated: after the batch loop and the sweep of a run, the record that
\* was stored for the URL of an entry whose fetch or extraction failed is
\* still stored, unchanged.
C10_ErrorKeepsRecord ==
  \A p \in Called :
    ( /\ AfterSweep(p[1])
      /\ StateOf(p).error = DocumentFailure(EntryOf(p).loc)
      /\ StateOf(p).prior # NoDoc )
    => StateOf(p).prior \in docs

\* the error strings processEntry can return for a URL
EntryErrors(url) == {DocumentFailure(url), EntryFailure(url, StoreError)}

\* C11 as stated: when a run has ended, every entry that was fetched but
\* neither stored nor found unchanged has its error string, naming its URL,
\* in the ledger entry of the run.
C11_DiscardIsRecorded ==
  \A r \in RunIds :
    runs[r].pc \in {"returned", "threw"} =>
      \A i \in 1..Len(runs[r].est) :
        LET s == runs[r].est[i]
        IN (s.fetched /\ ~s.wrote /\ s.action # "skipped") =>
             /\ s.error \in EntryErrors(runs[r].entries[i].loc)
             /\ \E k \in RowsOf(r) : s.error \in SeqSet(ledger[k].errors)

\* the URLs of the eligible entries of run r
CurrentUrls(r) == {runs[r].entries[i].loc : i \in 1..Len(runs[r].entries)}

\* run r has returned from its try block: its ledger row has no run-level error
CompletedNormally(r) ==
  /\ runs[r].pc = "returned"
  /\ \A k \in RowsOf(r) : ~FailedRow(ledger[k])

\* C12 as stated: after a run that completed normally the Store holds no
\* record whose url is absent from the run's eligible entries.
C12_SweepRemovesAbsent ==
  \A r \in RunIds :
    CompletedNormally(r) => \A d \in docs : d.url \in CurrentUrls(r)

\* C13 as stated: the deletedDocuments count in the ledger entry of a run is
\* the number of records its sweep removed from the Store.
C13_DeletedCountExact ==
  \A r \in RunIds :
    runs[r].pc = "returned" =>
      \A k \in RowsOf(r) : ledger[k].deletedDocuments = runs[r].removed

\* the sitemaps run r has dealt with: those before smIdx while the loop over
\* config.sitemapUrls runs, all of them afterwards
SitemapsDone(r) ==
  IF runs[r].pc = "sitemaps" THEN 1..(runs[r].smIdx - 1)
  ELSE 1..Len(SitemapUrls)

\* the entries run r took from sitemap s, in order
EntriesFrom(r, s) == SelectSeq(runs[r].all, LAMBDA e : e.source = s)

\* how often the string msg is in the sequence errors
Occurrences(errors, msg) ==
  Cardinality({k \in 1..Len(errors) : errors[k] = msg})

\* C14: for every sitemap a run has dealt with, either its fetch failed, the
\* errors list holds exactly one string for it and it contributed no entry, or
\* the list holds none and all its entries were taken; a failure does not
\* abort the run: the loop goes on to the remaining sitemaps and the eligible
\* entries of the others are the ones processed.
C14_SitemapIsolation ==
  \A r \in RunIds :
    Active(r) =>
      /\ runs[r].pc # "sitemaps" =>
           /\ runs[r].smIdx = Len(SitemapUrls)
           /\ runs[r].entries = FilterDocumentationEntries(runs[r].all)
      /\ \A k \in SitemapsDone(r) :
           LET s == SitemapUrls[k]
               n == Occurrences(runs[r].status.errors, SitemapFailure(s))
           IN \/ n = 1 /\ EntriesFrom(r, s) = <<>>
              \/ /\ n = 0
                 /\ Len(EntriesFrom(r, s)) = Len(sitemaps[s])
                 /\ \A i \in 1..Len(sitemaps[s]) :
                      /\ EntriesFrom(r, s)[i].loc = sitemaps[s][i].loc
                      /\ EntriesFrom(r, s)[i].lastmod = sitemaps[s][i].lastmod

\* C14 witness: the first sitemap failed, the entry of the second one was
\* fetched and stored, and the run went on to its sweep
C14_Witness ==
  \E r \in RunIds :
    /\ runs[r].pc = "sweep"
    /\ Occurrences(runs[r].status.errors, SitemapFailure(SitemapUrls[1])) = 1
    /\ EntriesFrom(r, SitemapUrls[2]) # <<>>
    /\ \E i \in 1..Len(runs[r].est) : runs[r].est[i].wrote

\* the requests of one kind sent so far, as positions in fetches
FetchesOf(kind) == {k \in 1..Len(fetches) : fetches[k].kind = kind}

\* C15 as stated: in every trailing window of duration rateLimitWindow, here
\* the one that ends with a page request, at most rateLimitRequests page
\* requests were sent.
C15_AtMostNPerWindow ==
  \A k \in FetchesOf("document") :
    Cardinality({j \in FetchesOf("document") :
                   /\ fetches[j].at <= fetches[k].at
                   /\ fetches[k].at - fetches[j].at < rateLimitWindow})
      <= rateLimitRequests

\* C16 as stated: every page request admitted within the last window is in
\* the stored log with the time at which it was admitted, as many times as
\* requests were admitted at that time.
C16_LogHoldsAdmitted ==
  \A k \in FetchesOf("document") :
    now - fetches[k].at < rateLimitWindow =>
      Occurrences(rateLimiter, fetches[k].at) >=
        Cardinality({j \in FetchesOf("document") :
                       fetches[j].at = fetches[k].at})

\* C17 as stated: every sitemap request sent within the last window is
\* counted in the limiter's log, next to the page requests of that time.
C17_SitemapFetchesCounted ==
  \A k \in FetchesOf("sitemap") :
    now - fetches[k].at < rateLimitWindow =>
      Occurrences(rateLimiter, fetches[k].at) >=
        Cardinality({j \in 1..Len(fetches) : fetches[j].at = fetches[k].at})

\* the entries of run r between the call of processEntry and its return
InFlight(r) ==
  {i \in 1..Len(runs[r].est) : runs[r].est[i].st \in {"get", "fetch", "upsert"}}

\* C18: in every run the number of entries in flight, between the call of
\* processEntry and its return, is at most maxConcurrentUpdates.
C18_InFlightBounded ==
  \A r \in RunIds : Cardinality(InFlight(r)) <= maxConcurrentUpdates

\* C18 witness: a run with more entries than the limit has as many entries
\* in flight as the limit allows
C18_Witness ==
  \E r \in RunIds :
    /\ Len(runs[r].entries) > maxConcurrentUpdates
    /\ Cardinality(InFlight(r)) = maxConcurrentUpdates

\* the batch loop of run r is over
BatchLoopOver(r) ==
  runs[r].pc \in {"sweep", "sweepDel", "count", "save", "catch", "returned",
                  "threw"}

\* C19: no entry of a batch starts before every entry of the batches before
\* it has returned, its Store write included, and the sweep, the count and
\* the ledger write come only when every entry has returned.
C19_BatchesInSequence ==
  \A r \in RunIds :
    /\ \A b \in 1..Len(runs[r].batches) :
         \A i \in SeqSet(runs[r].batches[b]) :
           runs[r].est[i].st # "wait" =>
             \A a \in 1..(b - 1) :
               \A j \in SeqSet(runs[r].batches[a]) : runs[r].est[j].st = "done"
    /\ BatchLoopOver(r) =>
         \A i \in 1..Len(runs[r].est) : runs[r].est[i].st = "done"

\* C19 witness: the second batch has started and the entry of the first
\* batch has returned after its Store write
C19_Witness ==
  \E r \in RunIds :
    /\ runs[r].pc = "batch" /\ runs[r].bi = 2
    /\ \E i \in SeqSet(runs[r].batches[1]) : runs[r].est[i].wrote
    /\ \E j \in SeqSet(runs[r].batches[2]) : runs[r].est[j].st # "wait"

\* C20: the step in which an entry ends in error leaves every other entry and
\* the position of the run as they are, and when the batch loop has been left
\* every eligible entry has returned with its own outcome, an action or an
\* error, whatever happened to the others.
C20_FailureIsolated ==
  /\ [](\A r \in RunIds :
          runs[r].pc \in {"sweep", "sweepDel", "count", "save"} =>
            /\ Len(runs[r].est) = Len(runs[r].entries)
            /\ \A i \in 1..Len(runs[r].est) :
                 /\ runs[r].est[i].st = "done"
                 /\ (runs[r].est[i].error = "") # (runs[r].est[i].action = "")
                 /\ runs[r].est[i].error # "" =>
                      runs[r].est[i].error
                        \in EntryErrors(runs[r].entries[i].loc))
  /\ [][\A r \in RunIds :
          \A i \in 1..Len(runs[r].est) :
            ( /\ Len(runs'[r].est) = Len(runs[r].est)
              /\ runs[r].est[i].error = ""
              /\ runs'[r].est[i].error # "" )
            => /\ runs'[r].pc = runs[r].pc
               /\ \A j \in 1..Len(runs[r].est) :
                    j # i => runs'[r].est[j] = runs[r].est[j]]_vars

\* C20 witness: one entry of a batch of two ended in error and the other one
\* was stored
C20_Witness ==
  \E r \in RunIds :
    /\ runs[r].pc = "sweep" /\ Len(runs[r].batches) = 1
    /\ \E i \in 1..Len(runs[r].est), j \in 1..Len(runs[r].est) :
         runs[r].est[i].error # "" /\ runs[r].est[j].wrote

\* C21 as stated: a step that stores the record of one URL removes or
\* replaces no record of another URL.
C21_NoCrossOverwrite ==
  [][\A x \in docs' \ docs : \A d \in docs \ docs' : d.url = x.url]_vars

\* C23: no step removes or changes a ledger entry: the ledger before a step
\* is a prefix of the ledger after it.
C23_AppendOnly ==
  [][/\ Len(ledger') >= Len(ledger)
     /\ SubSeq(ledger', 1, Len(ledger)) = ledger]_vars

\* C23 witness: the second run has appended its entry after the first one
C23_Witness ==
  /\ Len(ledger) = 2
  /\ ledger[1].tag.run = 1 /\ ledger[2].tag.run = 2

\* C24 as stated: the entry a step appends to the ledger has in
\* totalDocuments the number of records the Store holds at that moment.
C24_TotalIsCount ==
  [][Len(ledger') > Len(ledger) =>
       ledger'[Len(ledger')].totalDocuments = GetTotalDocumentCount(docs')]_vars

\* the error strings of the entries of run r, in the order of the entries
EntryErrorSeq(r) ==
  LET failed == SelectSeq(runs[r].est, LAMBDA e : e.error # "")
  IN [k \in 1..Len(failed) |-> failed[k].error]

\* the entries of run r that were stored with the given action
StoredAs(r, action) ==
  {i \in 1..Len(runs[r].est) :
     runs[r].est[i].hasDoc /\ runs[r].est[i].action = action}

SitemapFailures == {SitemapFailure(SitemapUrls[k]) : k \in 1..Len(SitemapUrls)}

\* C25: the ledger entry of a run that was aborted after its batches carries
\* the number of entries created and updated in them, the error strings of the
\* failed sitemaps and entries, the latter in the order of the entries, and
\* after them the string of the terminating error as its last element.
C25_PartialCounts ==
  \A r \in RunIds :
    \A k \in RowsOf(r) :
      (runs[r].pc = "returned" /\ FailedRow(ledger[k])) =>
        LET errors == ledger[k].errors
            before == SubSeq(errors, 1, Len(errors) - 1)
        IN /\ ledger[k].newDocuments = Cardinality(StoredAs(r, "created"))
           /\ ledger[k].updatedDocuments = Cardinality(StoredAs(r, "updated"))
           /\ errors[Len(errors)] = UpdateFailure(StoreError)
           /\ SelectSeq(before, LAMBDA e : e \notin SitemapFailures)
                = EntryErrorSeq(r)
           /\ \A s \in SitemapFailures :
                Occurrences(before, s) = Occurrences(runs[r].status.errors, s)

\* C25 witness: an aborted run whose entry says one entry was stored and
\* holds the error string of another entry before the terminating error
C25_Witness ==
  \E r \in RunIds :
    \E k \in RowsOf(r) :
      /\ runs[r].pc = "returned" /\ FailedRow(ledger[k])
      /\ ledger[k].newDocuments + ledger[k].updatedDocuments > 0
      /\ Len(EntryErrorSeq(r)) > 0
      /\ Len(ledger[k].errors) > 1

\* C22: an upsert keeps the createdAt of the record that holds its id, and
\* the record it writes has the time of this upsert as updatedAt (and as
\* createdAt when no record held the id).
C22_CreatedAtKept ==
  [][\A x \in docs' :
       /\ \A d \in docs : d.id = x.id => x.createdAt = d.createdAt
       /\ x \notin docs => x.updatedAt = now'
       /\ (\A d \in docs : d.id # x.id) => x.createdAt = now']_vars

\* C22 witness: a record upserted again at a later time than its creation
C22_Witness ==
  \E x \in docs : x.createdAt < x.updatedAt /\ x.updatedAt = now

\* C26 as stated: whenever a run is in progress, also the first one with the
\* ledger still empty, the answer to a status query says that an update is
\* running, and whenever the ledger has entries the answer shows an entry of
\* the greatest timestamp.
C26_StatusAnswer ==
  \A answer \in HandleGetUpdateStatus(ledger, isRunning) :
    /\ isRunning => answer.currentlyRunning = "Yes"
    /\ ledger # <<>> => answer.lastUpdate = GetLastUpdateTime(ledger)

C28_ProcessWide ==
  /\ \A r1, r2 \in RunIds : (Active(r1) /\ Active(r2)) => r1 = r2
  /\ \A k \in 1..Len(ledger) :
       \A r \in RunIds : (Active(r) /\ runs[r].pc # "returned") =>
                           ledger[k].tag.run = r

\* the entries of run r whose page has content of the minimum length
Sufficient(r) ==
  {i \in 1..Len(runs[r].entries) : pages[runs[r].entries[i].loc] # "short"}

\* the first run, on an empty Store and ledger, has returned after both
\* sitemaps were read, its entries have pairwise distinct ids, and no request
\* for a page and no Store call failed
FirstRunScenario(k) ==
  /\ nStarted = 1 /\ runs[1].pc = "returned"
  /\ ~FailedRow(ledger[k])
  /\ \A s \in SitemapFailures : Occurrences(ledger[k].errors, s) = 0
  /\ \A i, j \in 1..Len(runs[1].entries) :
       ProcessorDocumentId(runs[1].entries[i].loc)
         = ProcessorDocumentId(runs[1].entries[j].loc) => i = j
  /\ \A i \in 1..Len(runs[1].entries) :
       /\ runs[1].est[i].error # EntryFailure(runs[1].entries[i].loc, StoreError)
       /\ i \in Sufficient(1) => runs[1].est[i].error = ""

\* C29: after the first run over k entries with distinct ids, m of them with
\* sufficient content, the Store holds m records and the ledger entry says
\* newDocuments = m, updatedDocuments = 0, deletedDocuments = 0,
\* totalDocuments = m and has k - m error strings, one for each entry with
\* insufficient content.
C29_FirstRun ==
  \A k \in RowsOf(1) :
    FirstRunScenario(k) =>
      LET m == Cardinality(Sufficient(1))
      IN /\ Cardinality(docs) = m
         /\ ledger[k].newDocuments = m
         /\ ledger[k].updatedDocuments = 0
         /\ ledger[k].deletedDocuments = 0
         /\ ledger[k].totalDocuments = m
         /\ Len(ledger[k].errors) = Len(runs[1].entries) - m
         /\ \A i \in 1..Len(runs[1].entries) :
              i \notin Sufficient(1) =>
                Occurrences(ledger[k].errors,
                            DocumentFailure(runs[1].entries[i].loc)) = 1

\* C29 witness: the first run over two entries, one of them with insufficient
\* content, has stored one record and recorded one error
C29_Witness ==
  \E k \in RowsOf(1) :
    /\ FirstRunScenario(k)
    /\ Len(runs[1].entries) = 2
    /\ Cardinality(Sufficient(1)) = 1
    /\ Cardinality(docs) = 1
    /\ ledger[k].errors = <<DocumentFailure(UrlHelpHome)>>

\* C30 as stated: once shutdown has been called the scheduled task is
\* stopped and no step is a scheduled trigger; shutdown polls at most
\* ShutdownPolls times; each step of shutdown leaves the runs, the Store and
\* the ledger as they are and goes on waiting exactly when a run is in
\* progress and fewer than ShutdownPolls polls were made, and otherwise
\* closes the Store; after that no step is taken.
C30_Shutdown ==
  /\ [](shutdownPc # "none" => ~scheduledTask)
  /\ [](waitCount <= ShutdownPolls)
  /\ [][/\ shutdownPc # "none" => ~CronTrigger
        /\ shutdownPc # "closed"
        /\ (shutdownPc' # shutdownPc \/ waitCount' # waitCount) =>
             /\ UNCHANGED <<isRunning, nStarted, runs, docs, ledger>>
             /\ waitCount' = IF shutdownPc = "none" THEN 0 ELSE waitCount + 1
             /\ shutdownPc' = IF isRunning /\ waitCount' < ShutdownPolls
                                THEN "wait" ELSE "closed"]_vars

\* C31 as stated: every started run ends, the scheduler being idle again.
C31_Terminates ==
  \A r \in RunIds : Active(r) ~> (runs[r].pc = "ended" /\ ~isRunning)

\* the entries of run r whose page has content of the minimum length and
\* whose processDocument call returned no document: the request failed
FetchFailed(r) ==
  {i \in 1..Len(runs[r].est) :
     /\ runs[r].est[i].fetched
     /\ runs[r].est[i].st = "done"
     /\ ~runs[r].est[i].hasDoc /\ runs[r].est[i].action = ""
     /\ pages[runs[r].entries[i].loc] # "short"
     /\ runs[r].est[i].error # EntryFailure(runs[r].entries[i].loc, StoreError)}

\* C32 as stated: the error string of an entry whose request failed carries
\* the message of the failure beside the URL.
C32_CauseRecorded ==
  \A r \in RunIds :
    \A i \in FetchFailed(r) :
      runs[r].est[i].error = EntryFailure(runs[r].entries[i].loc, FetchError)

\* C33: in every run the entries handed to processEntry are the entries of
\* the sitemaps whose URL is a documentation URL, in order; no other URL is
\* requested, stored, or counted as present by the deletion sweep.
C33_OnlyEligible ==
  /\ \A d \in docs : IsDocumentationUrl(d.url)
  /\ \A r \in RunIds :
       /\ runs[r].pc \notin {"idle", "sitemaps", "ended"} =>
            runs[r].entries
              = SelectSeq(runs[r].all, LAMBDA e : IsDocumentationUrl(e.loc))
       /\ \A i \in 1..Len(runs[r].est) :
            IsDocumentationUrl(runs[r].entries[i].loc)
       /\ \A u \in CurrentUrls(r) : IsDocumentationUrl(u)

\* C33 witness: a run whose sitemaps listed a category page has returned
\* with the article stored and the category page neither an entry nor stored
C33_Witness ==
  \E r \in RunIds :
    /\ runs[r].pc = "returned"
    /\ \E k \in 1..Len(runs[r].all) : runs[r].all[k].loc = UrlCategory
    /\ UrlCategory \notin CurrentUrls(r)
    /\ \E d \in docs : d.url = UrlArticle

\* C34: the scheduled task is set only once initialization is over; with
\* forceUpdateOnStart initialization starts one run, with force, and the step
\* that sets the scheduled task is the end of that run, isRunning being false
\* and no other run started; without the flag the scheduled task is set with
\* no run started.
C34_InitialUpdate ==
  /\ [](scheduledTask => initPc = "done")
  /\ [](initPc = "update" =>
          /\ forceUpdateOnStart /\ nStarted = 1 /\ isRunning
          /\ Active(1) /\ runs[1].force)
  /\ [][(~scheduledTask /\ scheduledTask') =>
          /\ ~isRunning' /\ ActiveRuns' = {}
          /\ IF forceUpdateOnStart
               THEN /\ initPc = "update" /\ nStarted' = 1
                    /\ runs'[1].pc = "ended"
               ELSE nStarted' = 0]_vars

\* C34 witness: with forceUpdateOnStart the scheduled task is set, the one
\* run of initialization has ended and has written its ledger entry
C34_Witness ==
  /\ forceUpdateOnStart /\ scheduledTask /\ initPc = "done"
  /\ nStarted = 1 /\ runs[1].pc = "ended" /\ ~isRunning
  /\ Len(ledger) = 1

\* the batches one after another
RECURSIVE Concatenated(_)
Concatenated(batches) ==
  IF batches = <<>> THEN <<>>
  ELSE Head(batches) \o Concatenated(Tail(batches))

\* C35: the batches of createBatches(items, batchSize), batchSize >= 1, give
\* items when concatenated; each but the last has batchSize items, the last
\* has from 1 to batchSize, and no items give no batch.
C35_Partition ==
  runs[1].pc = "batched" =>
    LET items == runs[1].entries
        batches == runs[1].batches
        batchSize == maxConcurrentUpdates
    IN /\ Concatenated(batches) = items
       /\ \A b \in 1..(Len(batches) - 1) : Len(batches[b]) = batchSize
       /\ batches # <<>> =>
            /\ Len(batches[Len(batches)]) >= 1
            /\ Len(batches[Len(batches)]) <= batchSize
       /\ items = <<>> => batches = <<>>

\* C35 witness: MaxItems items and a batch size that does not divide their
\* number: the last batch is shorter than the ones before it
C35_Witness ==
  /\ runs[1].pc = "batched"
  /\ Len(runs[1].entries) = MaxItems
  /\ Len(runs[1].batches) >= 2
  /\ Len(runs[1].batches[Len(runs[1].batches)]) < maxConcurrentUpdates

\* the URLs that sitemap s lists
ListedIn(s) == {sitemaps[s][i].loc : i \in 1..Len(sitemaps[s])}

\* C36 as stated: in a run that could not fetch or parse sitemap s, the sweep
\* deletes no record stored from the source of s: each such record of the
\* Store is still there after every deleteDocument of that run's sweep.
C36_FailedSitemapKept ==
  [][\A r \in RunIds : \A k \in 1..Len(SitemapUrls) :
       (/\ runs[r].pc = "sweepDel"
        /\ runs'[r] # runs[r]
        /\ Occurrences(runs[r].status.errors,
                       SitemapFailure(SitemapUrls[k])) > 0)
       => \A d \in docs : d.url \in ListedIn(SitemapUrls[k]) => d \in docs']_vars

\* the time the last request for url was sent at, NoTime without one
LastFetch(url) ==
  LET sent == {k \in 1..Len(fetches) : fetches[k].url = url}
  IN IF sent = {} THEN NoTime
     ELSE fetches[CHOOSE k \in sent : \A j \in sent : j <= k].at

\* C37 as stated: a run that is not forced does not skip, by the lastModified
\* rule, an entry whose lastModified is later than the moment its URL was
\* last fetched.
C37_ChangeNotMissed ==
  \A r \in RunIds : \A i \in 1..Len(runs[r].est) :
    (/\ ~runs[r].force
     /\ runs[r].entries[i].lastmod # NoTime
     /\ LastFetch(runs[r].entries[i].loc) # NoTime
     /\ runs[r].entries[i].lastmod > LastFetch(runs[r].entries[i].loc))
    => ~runs[r].est[i].ruleSkipped

\* C38 as stated: an entry that ended with an error in one run and is listed
\* with the same lastModified in the next run, which is not forced, is not
\* skipped by the lastModified rule there: it is fetched again.
C38_ErrorRetried ==
  \A r \in RunIds \ {1} : \A i \in 1..Len(runs[r].est) :
    (/\ ~runs[r].force
     /\ runs[r].entries[i].lastmod # NoTime
     /\ \E k \in RowsOf(r - 1) :
          \E e \in EntryErrors(runs[r].entries[i].loc) :
            Occurrences(ledger[k].errors, e) > 0)
    => ~runs[r].est[i].ruleSkipped

\* C39 as stated, for the first run, which starts on an empty Store, when it
\* completes normally and no other run has started: the totalDocuments of its
\* ledger entry is the Store count before the run (none) plus newDocuments
\* minus deletedDocuments, also when a URL is listed more than once.
C39_Accounting ==
  (CompletedNormally(1) /\ \A r \in RunIds \ {1} : runs[r].pc = "idle") =>
    \A k \in RowsOf(1) :
      ledger[k].totalDocuments =
        0 + ledger[k].newDocuments - ledger[k].deletedDocuments

====
